---- MODULE Spec2Model ----
(***************************************************************************)
(* Icom ID-5100 backend (rigs/icom/id5100.c): mode codec, VFO selection    *)
(* with the implicit dual-watch toggle, and the split pairing rule.        *)
(*                                                                         *)
(* The unit of atomicity is one CI-V transaction (icom_transaction /       *)
(* icom_set_func): every handler is cut at the transactions it issues, so  *)
(* that callers sharing one RIG handle can interleave between them.  Under *)
(* Spec one handler runs at a time; under SpecConc handlers overlap; under *)
(* SpecKeep selects run one at a time and callers keep their results.      *)
(***************************************************************************)
EXTENDS Integers, Sequences, FiniteSets, TLC

VARIABLES
    dual_watch,     \* priv->dual_watch
    x25cmdfails,    \* priv->x25cmdfails
    current_vfo,    \* rig->state.current_vfo
    pc,             \* per caller: position inside the handler it runs
    call,           \* per caller: arguments, locals, out-parameters, return value
    devDualWatch,   \* history: value carried by the last acknowledged toggle
    lastTxBy        \* history: the caller whose transaction was last on the wire

vars == <<dual_watch, x25cmdfails, current_vfo, pc, call, devDualWatch, lastTxBy>>

\* Number of callers sharing the one RIG handle.
NumCallers == 2

Callers == 1..NumCallers

\* vfo_t values a caller may pass (RIG_VFO_MEM stands for every VFO outside
\* ID5100_VFO_ALL and RIG_VFO_CURR).
Vfos == {"RIG_VFO_A", "RIG_VFO_B", "RIG_VFO_MAIN", "RIG_VFO_SUB",
         "RIG_VFO_CURR", "RIG_VFO_MEM"}

\* Values rig->state.current_vfo may hold.
ActiveVfos == Vfos \ {"RIG_VFO_CURR"}

\* rmode_t values a caller may pass (RIG_MODE_USB stands for every mode outside
\* ID5100_MODES).
Modes == {"RIG_MODE_AM", "RIG_MODE_AMN", "RIG_MODE_FM", "RIG_MODE_FMN",
          "RIG_MODE_DSTAR", "RIG_MODE_USB"}

ID5100_MODES == {"RIG_MODE_AM", "RIG_MODE_AMN", "RIG_MODE_FM", "RIG_MODE_FMN",
                 "RIG_MODE_DSTAR"}

\* Outcomes of one transaction of the CI-V engine.
Results == {"RIG_OK", "-RIG_ETIMEOUT", "-RIG_ERJCTED"}

\* Bytes the rig may answer to C_RD_MODE: modebuf[1] and modebuf[2].
RespCodes == {1, 2, 5, 23}
RespSubs == {1, 2, 3}

\* What the caller's *mode / *width hold before get_mode runs.
CallerGarbage == {<<"RIG_MODE_NONE", 0>>, <<"RIG_MODE_USB", 2400>>}

NoCall == [op |-> "none", arg_vfo |-> "-", vfo |-> "-", split |-> 0,
           tx_vfo |-> "-", mode |-> "-", out_mode |-> "-", out_width |-> 0,
           resp |-> <<0, 0>>, txs |-> <<>>, retval |-> "-",
           dw0 |-> 0, x250 |-> 0]

\* One transaction as the engine saw it.  vfosel is the subcommand of C_SET_VFO,
\* code the numeric subcommand of the mode commands (-1: none), payload the data
\* byte (-1: NULL, length 0).
Txn(cmd, vfosel, code, payload, ret) ==
    [cmd |-> cmd, vfosel |-> vfosel, code |-> code, payload |-> payload, ret |-> ret]

----------------------------------------------------------------------------
(* Mode codec *)

\* Encode without the default case: an unknown mode leaves icmode at its
\* initializer (line 79) and the request is sent.
Encode_NoDefault(mode) ==
    CASE mode = "RIG_MODE_AM"    -> <<2, 1>>
      [] mode = "RIG_MODE_AMN"   -> <<2, 2>>
      [] mode = "RIG_MODE_FM"    -> <<5, 1>>
      [] mode = "RIG_MODE_FMN"   -> <<5, 2>>
      [] mode = "RIG_MODE_DSTAR" -> <<23, 1>>
      [] OTHER                   -> <<2, 1>>

\* id5100_set_mode, switch (mode): <<icmode, modebuf>>, or <<-1, -1>> for default.
Encode(mode) ==
    CASE mode = "RIG_MODE_AM"    -> <<2, 1>>
      [] mode = "RIG_MODE_AMN"   -> <<2, 2>>
      [] mode = "RIG_MODE_FM"    -> <<5, 1>>
      [] mode = "RIG_MODE_FMN"   -> <<5, 2>>
      [] mode = "RIG_MODE_DSTAR" -> <<23, 1>>
      [] OTHER                   -> <<-1, -1>>

\* Decode with the FM widths of line 129 exchanged.
Decode_FmWidthsSwapped(code, sub, prior) ==
    CASE code = 2  -> <<IF sub = 1 THEN "RIG_MODE_AM" ELSE "RIG_MODE_AMN",
                        IF sub = 1 THEN 12000 ELSE 6000>>
      [] code = 5  -> <<IF sub = 1 THEN "RIG_MODE_FM" ELSE "RIG_MODE_FMN",
                        IF sub = 1 THEN 5000 ELSE 10000>>
      [] code = 23 -> <<"RIG_MODE_DSTAR", 6000>>
      [] OTHER     -> prior

\* id5100_get_mode, switch (modebuf[1]): the resulting <<*mode, *width>>; prior is
\* what the out-parameters held, kept when no case matches.
Decode(code, sub, prior) ==
    CASE code = 2  -> <<IF sub = 1 THEN "RIG_MODE_AM" ELSE "RIG_MODE_AMN",
                        IF sub = 1 THEN 12000 ELSE 6000>>
      [] code = 5  -> <<IF sub = 1 THEN "RIG_MODE_FM" ELSE "RIG_MODE_FMN",
                        IF sub = 1 THEN 10000 ELSE 5000>>
      [] code = 23 -> <<"RIG_MODE_DSTAR", 6000>>
      [] OTHER     -> prior

----------------------------------------------------------------------------
(* VFO selection *)

\* ResolveVfo without line 148: RIG_VFO_CURR is passed on as it is.
ResolveVfo_Unresolved(vfo) == vfo

\* id5100_set_vfo line 148.
ResolveVfo(vfo) == IF vfo = "RIG_VFO_CURR" THEN current_vfo ELSE vfo

\* TouchesX25 with the assignment hoisted above the test of line 154: every request
\* sets the flag.
TouchesX25_Always(vfo) == TRUE

\* id5100_set_vfo lines 154 and 170: does the request set priv->x25cmdfails.
TouchesX25(vfo) == vfo \in {"RIG_VFO_A", "RIG_VFO_B", "RIG_VFO_MAIN", "RIG_VFO_SUB"}

\* ToggleFor without the tests of priv->dual_watch at lines 159 and 175: the
\* toggle is sent on every select of the four VFOs.
ToggleFor_Unconditional(vfo, dw) ==
    IF vfo \in {"RIG_VFO_A", "RIG_VFO_B"}
    THEN 0
    ELSE IF vfo \in {"RIG_VFO_MAIN", "RIG_VFO_SUB"} THEN 1 ELSE -1

\* id5100_set_vfo lines 154-184: the value to send with RIG_FUNC_DUAL_WATCH, or -1
\* when no toggle is needed.
ToggleFor(vfo, dw) ==
    IF vfo \in {"RIG_VFO_A", "RIG_VFO_B"}
    THEN (IF dw # 0 THEN 0 ELSE -1)
    ELSE IF vfo \in {"RIG_VFO_MAIN", "RIG_VFO_SUB"}
         THEN (IF dw = 0 THEN 1 ELSE -1)
         ELSE -1

\* PhysicalSelector with the test of line 188 reduced to RIG_VFO_B.
PhysicalSelector_SubAsMain(vfo) ==
    IF vfo = "RIG_VFO_B" THEN "S_SUB" ELSE "S_MAIN"

\* PhysicalSelector with the test of line 188 reduced to RIG_VFO_SUB.
PhysicalSelector_BAsMain(vfo) ==
    IF vfo = "RIG_VFO_SUB" THEN "S_SUB" ELSE "S_MAIN"

\* id5100_set_vfo lines 186-191.
PhysicalSelector(vfo) ==
    IF vfo \in {"RIG_VFO_B", "RIG_VFO_SUB"} THEN "S_SUB" ELSE "S_MAIN"

\* SplitTxOk accepting every VFO of ID5100_VFO_ALL as transmit VFO.
SplitTxOk_AnyVfo(tx_vfo) ==
    tx_vfo \in {"RIG_VFO_A", "RIG_VFO_B", "RIG_VFO_MAIN", "RIG_VFO_SUB"}

\* id5100_set_split_vfo line 209.
SplitTxOk(tx_vfo) == tx_vfo \in {"RIG_VFO_A", "RIG_VFO_MAIN"}

----------------------------------------------------------------------------
Init ==
    /\ dual_watch \in {0, 1}
    /\ x25cmdfails \in {0, 1}
    /\ current_vfo \in ActiveVfos
    /\ pc = [c \in Callers |-> "idle"]
    /\ call = [c \in Callers |-> NoCall]
    /\ devDualWatch = dual_watch
    /\ lastTxBy = 0

\* EnterSetVfo following the comment of line 156 ("0x25 works in this mode"): a
\* select of A or B clears priv->x25cmdfails.
EnterSetVfo_X25WorksInAB(c, rec, vfo) ==
    LET v == ResolveVfo(vfo) IN
    /\ x25cmdfails' = IF v \in {"RIG_VFO_A", "RIG_VFO_B"} THEN 0
                      ELSE IF v \in {"RIG_VFO_MAIN", "RIG_VFO_SUB"} THEN 1
                      ELSE x25cmdfails
    /\ call' = [call EXCEPT ![c] = [rec EXCEPT !.vfo = v]]
    /\ pc' = [pc EXCEPT ![c] =
                 IF ToggleFor(v, dual_watch) # -1 THEN "set_func" ELSE "set_vfo"]
    /\ UNCHANGED <<dual_watch, current_vfo, devDualWatch, lastTxBy>>

\* id5100_set_vfo from entry to its first transaction (lines 139-184).
EnterSetVfo(c, rec, vfo) ==
    LET v == ResolveVfo(vfo) IN
    /\ x25cmdfails' = IF TouchesX25(v) THEN 1 ELSE x25cmdfails
    /\ call' = [call EXCEPT ![c] = [rec EXCEPT !.vfo = v]]
    /\ pc' = [pc EXCEPT ![c] =
                 IF ToggleFor(v, dual_watch) # -1 THEN "set_func" ELSE "set_vfo"]
    /\ UNCHANGED <<dual_watch, current_vfo, devDualWatch, lastTxBy>>

\* A caller enters id5100_set_vfo(rig, vfo).
CallSetVfo(c, vfo) ==
    /\ pc[c] = "idle"
    /\ EnterSetVfo(c, [NoCall EXCEPT !.op = "set_vfo", !.arg_vfo = vfo,
                                     !.dw0 = dual_watch, !.x250 = x25cmdfails], vfo)

\* SetFuncTxn without the early return of lines 165 and 180: a failed toggle falls
\* through to the assignment and to the VFO-select transaction.
SetFuncTxn_IgnoresFailure(c, r) ==
    LET val == IF call[c].vfo \in {"RIG_VFO_A", "RIG_VFO_B"} THEN 0 ELSE 1
        t == Txn("icom_set_func", "none", -1, val, r) IN
    /\ pc[c] = "set_func"
    /\ lastTxBy' = c
    /\ devDualWatch' = IF r = "RIG_OK" THEN val ELSE devDualWatch
    /\ call' = [call EXCEPT ![c].txs = Append(@, t)]
    /\ dual_watch' = val
    /\ pc' = [pc EXCEPT ![c] = "set_vfo"]
    /\ UNCHANGED <<x25cmdfails, current_vfo>>

\* SetFuncTxn with priv->dual_watch assigned ahead of the call to icom_set_func.
SetFuncTxn_Speculative(c, r) ==
    LET val == IF call[c].vfo \in {"RIG_VFO_A", "RIG_VFO_B"} THEN 0 ELSE 1
        t == Txn("icom_set_func", "none", -1, val, r) IN
    /\ pc[c] = "set_func"
    /\ lastTxBy' = c
    /\ devDualWatch' = IF r = "RIG_OK" THEN val ELSE devDualWatch
    /\ dual_watch' = val
    /\ IF r # "RIG_OK"
       THEN /\ call' = [call EXCEPT ![c].txs = Append(@, t), ![c].retval = r]
            /\ pc' = [pc EXCEPT ![c] = "done"]
       ELSE /\ call' = [call EXCEPT ![c].txs = Append(@, t)]
            /\ pc' = [pc EXCEPT ![c] = "set_vfo"]
    /\ UNCHANGED <<x25cmdfails, current_vfo>>

\* SetFuncTxn returning a code of its own, -RIG_EINVAL, in place of retval when the
\* toggle fails.
SetFuncTxn_OwnError(c, r) ==
    LET val == IF call[c].vfo \in {"RIG_VFO_A", "RIG_VFO_B"} THEN 0 ELSE 1
        t == Txn("icom_set_func", "none", -1, val, r) IN
    /\ pc[c] = "set_func"
    /\ lastTxBy' = c
    /\ devDualWatch' = IF r = "RIG_OK" THEN val ELSE devDualWatch
    /\ IF r # "RIG_OK"
       THEN /\ call' = [call EXCEPT ![c].txs = Append(@, t),
                                    ![c].retval = "-RIG_EINVAL"]
            /\ pc' = [pc EXCEPT ![c] = "done"]
            /\ UNCHANGED dual_watch
       ELSE /\ call' = [call EXCEPT ![c].txs = Append(@, t)]
            /\ dual_watch' = val
            /\ pc' = [pc EXCEPT ![c] = "set_vfo"]
    /\ UNCHANGED <<x25cmdfails, current_vfo>>

\* SetFuncTxn with line 167 a copy of line 182: priv->dual_watch = 1 after either
\* toggle.
SetFuncTxn_StoresOne(c, r) ==
    LET val == IF call[c].vfo \in {"RIG_VFO_A", "RIG_VFO_B"} THEN 0 ELSE 1
        t == Txn("icom_set_func", "none", -1, val, r) IN
    /\ pc[c] = "set_func"
    /\ lastTxBy' = c
    /\ devDualWatch' = IF r = "RIG_OK" THEN val ELSE devDualWatch
    /\ IF r # "RIG_OK"
       THEN /\ call' = [call EXCEPT ![c].txs = Append(@, t), ![c].retval = r]
            /\ pc' = [pc EXCEPT ![c] = "done"]
            /\ UNCHANGED dual_watch
       ELSE /\ call' = [call EXCEPT ![c].txs = Append(@, t)]
            /\ dual_watch' = 1
            /\ pc' = [pc EXCEPT ![c] = "set_vfo"]
    /\ UNCHANGED <<x25cmdfails, current_vfo>>

\* icom_set_func(rig, RIG_VFO_CURR, RIG_FUNC_DUAL_WATCH, 0 or 1) returns r
\* (lines 162-167 and 177-182).
SetFuncTxn(c, r) ==
    LET val == IF call[c].vfo \in {"RIG_VFO_A", "RIG_VFO_B"} THEN 0 ELSE 1
        t == Txn("icom_set_func", "none", -1, val, r) IN
    /\ pc[c] = "set_func"
    /\ lastTxBy' = c
    /\ devDualWatch' = IF r = "RIG_OK" THEN val ELSE devDualWatch
    /\ IF r # "RIG_OK"
       THEN /\ call' = [call EXCEPT ![c].txs = Append(@, t), ![c].retval = r]
            /\ pc' = [pc EXCEPT ![c] = "done"]
            /\ UNCHANGED dual_watch
       ELSE /\ call' = [call EXCEPT ![c].txs = Append(@, t)]
            /\ dual_watch' = val
            /\ pc' = [pc EXCEPT ![c] = "set_vfo"]
    /\ UNCHANGED <<x25cmdfails, current_vfo>>

\* SetVfoTxn restoring priv->dual_watch to its value at entry when the VFO-select
\* transaction fails.
SetVfoTxn_RollsBack(c, r) ==
    LET t == Txn("C_SET_VFO", PhysicalSelector(call[c].vfo), -1, -1, r) IN
    /\ pc[c] = "set_vfo"
    /\ lastTxBy' = c
    /\ call' = [call EXCEPT ![c].txs = Append(@, t), ![c].retval = r]
    /\ pc' = [pc EXCEPT ![c] = "done"]
    /\ dual_watch' = IF r # "RIG_OK" THEN call[c].dw0 ELSE dual_watch
    /\ UNCHANGED <<x25cmdfails, current_vfo, devDualWatch>>

\* SetVfoTxn sending the VFO-select transaction a second time when it fails.
SetVfoTxn_Retries(c, r) ==
    LET t == Txn("C_SET_VFO", PhysicalSelector(call[c].vfo), -1, -1, r) IN
    /\ pc[c] = "set_vfo"
    /\ lastTxBy' = c
    /\ call' = [call EXCEPT ![c].txs = IF r # "RIG_OK" THEN Append(Append(@, t), t)
                                       ELSE Append(@, t),
                            ![c].retval = r]
    /\ pc' = [pc EXCEPT ![c] = "done"]
    /\ UNCHANGED <<dual_watch, x25cmdfails, current_vfo, devDualWatch>>

\* icom_transaction(rig, C_SET_VFO, myvfo, NULL, 0, ...) returns r (lines 186-199).
SetVfoTxn(c, r) ==
    LET t == Txn("C_SET_VFO", PhysicalSelector(call[c].vfo), -1, -1, r) IN
    /\ pc[c] = "set_vfo"
    /\ lastTxBy' = c
    /\ call' = [call EXCEPT ![c].txs = Append(@, t), ![c].retval = r]
    /\ pc' = [pc EXCEPT ![c] = "done"]
    /\ UNCHANGED <<dual_watch, x25cmdfails, current_vfo, devDualWatch>>

\* rig_set_vfo(rig, vfo) as called at line 212: the frontend hands the request to
\* the backend's set_vfo, id5100_set_vfo, and returns its result.
RigSetVfo(c, rec, vfo) == EnterSetVfo(c, rec, vfo)

\* CallSetSplitVfo flagging priv->x25cmdfails on the rejected pairing too.
CallSetSplitVfo_FlagsOnReject(c, vfo, split, tx_vfo) ==
    LET rec == [NoCall EXCEPT !.op = "set_split_vfo", !.arg_vfo = vfo,
                              !.split = split, !.tx_vfo = tx_vfo,
                              !.dw0 = dual_watch, !.x250 = x25cmdfails] IN
    /\ pc[c] = "idle"
    /\ IF SplitTxOk(tx_vfo)
       THEN RigSetVfo(c, rec, "RIG_VFO_SUB")
       ELSE /\ call' = [call EXCEPT ![c] = [rec EXCEPT !.retval = "-RIG_EINVAL"]]
            /\ pc' = [pc EXCEPT ![c] = "done"]
            /\ x25cmdfails' = 1
            /\ UNCHANGED <<dual_watch, current_vfo, devDualWatch, lastTxBy>>

\* CallSetSplitVfo treating split = 0 as a request it has nothing to do for.
CallSetSplitVfo_HonoursDisable(c, vfo, split, tx_vfo) ==
    LET rec == [NoCall EXCEPT !.op = "set_split_vfo", !.arg_vfo = vfo,
                              !.split = split, !.tx_vfo = tx_vfo,
                              !.dw0 = dual_watch, !.x250 = x25cmdfails] IN
    /\ pc[c] = "idle"
    /\ IF split # 0 /\ SplitTxOk(tx_vfo)
       THEN RigSetVfo(c, rec, "RIG_VFO_SUB")
       ELSE /\ call' = [call EXCEPT ![c] =
                           [rec EXCEPT !.retval = IF SplitTxOk(tx_vfo) THEN "RIG_OK"
                                                  ELSE "-RIG_EINVAL"]]
            /\ pc' = [pc EXCEPT ![c] = "done"]
            /\ UNCHANGED <<dual_watch, x25cmdfails, current_vfo, devDualWatch,
                           lastTxBy>>

\* A caller enters id5100_set_split_vfo(rig, vfo, split, tx_vfo) (lines 202-223).
CallSetSplitVfo(c, vfo, split, tx_vfo) ==
    LET rec == [NoCall EXCEPT !.op = "set_split_vfo", !.arg_vfo = vfo,
                              !.split = split, !.tx_vfo = tx_vfo,
                              !.dw0 = dual_watch, !.x250 = x25cmdfails] IN
    /\ pc[c] = "idle"
    /\ IF SplitTxOk(tx_vfo)
       THEN RigSetVfo(c, rec, "RIG_VFO_SUB")
       ELSE /\ call' = [call EXCEPT ![c] = [rec EXCEPT !.retval = "-RIG_EINVAL"]]
            /\ pc' = [pc EXCEPT ![c] = "done"]
            /\ UNCHANGED <<dual_watch, x25cmdfails, current_vfo, devDualWatch,
                           lastTxBy>>

\* A caller enters id5100_set_mode(rig, vfo, mode, width) (lines 74-100); vfo and
\* width are not read by the handler.
CallSetMode(c, mode) ==
    LET rec == [NoCall EXCEPT !.op = "set_mode", !.mode = mode,
                              !.dw0 = dual_watch, !.x250 = x25cmdfails] IN
    /\ pc[c] = "idle"
    /\ IF Encode(mode) = <<-1, -1>>
       THEN /\ call' = [call EXCEPT ![c] = [rec EXCEPT !.retval = "-RIG_EINVAL"]]
            /\ pc' = [pc EXCEPT ![c] = "done"]
       ELSE /\ call' = [call EXCEPT ![c] = rec]
            /\ pc' = [pc EXCEPT ![c] = "set_mode"]
    /\ UNCHANGED <<dual_watch, x25cmdfails, current_vfo, devDualWatch, lastTxBy>>

\* icom_transaction(rig, C_SET_MODE, icmode, &modebuf, 1, ...) returns r
\* (lines 102-105).
SetModeTxn(c, r) ==
    LET e == Encode(call[c].mode)
        t == Txn("C_SET_MODE", "none", e[1], e[2], r) IN
    /\ pc[c] = "set_mode"
    /\ lastTxBy' = c
    /\ call' = [call EXCEPT ![c].txs = Append(@, t), ![c].retval = r]
    /\ pc' = [pc EXCEPT ![c] = "done"]
    /\ UNCHANGED <<dual_watch, x25cmdfails, current_vfo, devDualWatch>>

\* A caller enters id5100_get_mode(rig, vfo, mode, width) (lines 108-113); prior is
\* what *mode and *width hold on entry.
CallGetMode(c, prior) ==
    /\ pc[c] = "idle"
    /\ call' = [call EXCEPT ![c] = [NoCall EXCEPT !.op = "get_mode",
                                       !.out_mode = prior[1], !.out_width = prior[2],
                                       !.dw0 = dual_watch, !.x250 = x25cmdfails]]
    /\ pc' = [pc EXCEPT ![c] = "rd_mode"]
    /\ UNCHANGED <<dual_watch, x25cmdfails, current_vfo, devDualWatch, lastTxBy>>

\* icom_transaction(rig, C_RD_MODE, -1, NULL, 0, modebuf, &mode_len) returns r with
\* modebuf[1] = code and modebuf[2] = sub (lines 114-136).
RdModeTxn(c, r, code, sub) ==
    LET t == Txn("C_RD_MODE", "none", -1, -1, r)
        d == Decode(code, sub, <<call[c].out_mode, call[c].out_width>>) IN
    /\ pc[c] = "rd_mode"
    /\ lastTxBy' = c
    /\ IF r # "RIG_OK"
       THEN call' = [call EXCEPT ![c].txs = Append(@, t), ![c].retval = r]
       ELSE call' = [call EXCEPT ![c].txs = Append(@, t), ![c].retval = "RIG_OK",
                                 ![c].resp = <<code, sub>>,
                                 ![c].out_mode = d[1], ![c].out_width = d[2]]
    /\ pc' = [pc EXCEPT ![c] = "done"]
    /\ UNCHANGED <<dual_watch, x25cmdfails, current_vfo, devDualWatch>>

\* The handler's return value reaches the caller.
Return(c) ==
    /\ pc[c] = "done"
    /\ pc' = [pc EXCEPT ![c] = "idle"]
    /\ call' = [call EXCEPT ![c] = NoCall]
    /\ UNCHANGED <<dual_watch, x25cmdfails, current_vfo, devDualWatch, lastTxBy>>

\* No handler is running on the handle.
Quiescent == \A d \in Callers : pc[d] = "idle"

\* The transactions of running handlers, and their returns.
Step(c) ==
    \/ \E r \in Results : SetFuncTxn(c, r)
    \/ \E r \in Results : SetVfoTxn(c, r)
    \/ \E r \in Results : SetModeTxn(c, r)
    \/ \E r \in Results, code \in RespCodes, sub \in RespSubs : RdModeTxn(c, r, code, sub)
    \/ Return(c)

\* One handler at a time: a caller enters only when the handle is quiescent.
Next ==
    \E c \in Callers :
        \/ Quiescent /\ \E v \in Vfos : CallSetVfo(c, v)
        \/ Quiescent /\ \E v \in Vfos, s \in {0, 1}, tx \in Vfos :
                            CallSetSplitVfo(c, v, s, tx)
        \/ Quiescent /\ \E m \in Modes : CallSetMode(c, m)
        \/ Quiescent /\ \E g \in CallerGarbage : CallGetMode(c, g)
        \/ Step(c)

Spec == Init /\ [][Next]_vars

\* Callers enter handlers on the shared handle with no coordination: nothing in
\* id5100.c takes a lock.
NextConc ==
    \E c \in Callers :
        \/ \E v \in Vfos : CallSetVfo(c, v)
        \/ \E tx \in {"RIG_VFO_MAIN", "RIG_VFO_B"} :
               CallSetSplitVfo(c, "RIG_VFO_CURR", 1, tx)
        \/ \E m \in {"RIG_MODE_FM", "RIG_MODE_USB"} : CallSetMode(c, m)
        \/ CallGetMode(c, <<"RIG_MODE_NONE", 0>>)
        \/ Step(c)

SpecConc == Init /\ [][NextConc]_vars

\* No handler is between its entry and its return value.
NoneRunning == \A d \in Callers : pc[d] \in {"idle", "done"}

\* One handler at a time, as under Spec, but a caller may still hold the result of
\* its last select while another caller's select runs.
NextKeep ==
    \E c \in Callers :
        \/ NoneRunning /\ \E v \in {"RIG_VFO_A", "RIG_VFO_MAIN"} : CallSetVfo(c, v)
        \/ NoneRunning /\ \E tx \in {"RIG_VFO_MAIN", "RIG_VFO_B"} :
                              CallSetSplitVfo(c, "RIG_VFO_CURR", 1, tx)
        \/ \E r \in Results : SetFuncTxn(c, r)
        \/ \E r \in Results : SetVfoTxn(c, r)
        \/ Return(c)

SpecKeep == Init /\ [][NextKeep]_vars

----------------------------------------------------------------------------
(* Vocabulary of the properties *)

Done(c) == pc[c] = "done"

\* The handler of caller c ran id5100_set_vfo (directly or through the split).
Selecting(c) == call[c].vfo # "-"

ToggleIdx(c) == {i \in DOMAIN call[c].txs : call[c].txs[i].cmd = "icom_set_func"}

SelectIdx(c) == {i \in DOMAIN call[c].txs : call[c].txs[i].cmd = "C_SET_VFO"}

Conventional == {"RIG_VFO_A", "RIG_VFO_B"}

DualPath == {"RIG_VFO_MAIN", "RIG_VFO_SUB"}

\* Exactly one toggle carrying val was issued by c, first, ahead of every select.
OneToggleFirst(c, val) ==
    /\ Cardinality(ToggleIdx(c)) = 1
    /\ 1 \in ToggleIdx(c)
    /\ call[c].txs[1].payload = val
    /\ \A j \in SelectIdx(c) : j > 1

\* C1: a select of A or B with dual-watch on issues exactly one toggle-off ahead of
\* the VFO-select transaction; a select of Main or Sub with dual-watch off issues
\* exactly one toggle-on ahead of it; a select inside the group that matches
\* dual-watch issues no toggle.
C1_ToggleCount ==
    \A c \in Callers :
        (Done(c) /\ Selecting(c)) =>
            /\ (call[c].vfo \in Conventional /\ call[c].dw0 = 1) => OneToggleFirst(c, 0)
            /\ (call[c].vfo \in DualPath /\ call[c].dw0 = 0) => OneToggleFirst(c, 1)
            /\ (call[c].vfo \in Conventional /\ call[c].dw0 = 0) => ToggleIdx(c) = {}
            /\ (call[c].vfo \in DualPath /\ call[c].dw0 = 1) => ToggleIdx(c) = {}

C1_Witness ==
    \E c \in Callers :
        /\ Done(c) /\ call[c].op = "set_vfo"
        /\ call[c].vfo \in Conventional /\ call[c].dw0 = 1
        /\ Len(call[c].txs) = 2
        /\ call[c].txs[1].cmd = "icom_set_func" /\ call[c].txs[1].payload = 0
        /\ call[c].txs[2].cmd = "C_SET_VFO" /\ call[c].retval = "RIG_OK"

\* C2: when the dual-watch toggle of a select fails, no VFO-select transaction is
\* issued, the select returns the toggle's failure, and dual_watch is what it was
\* before the select.
C2_ToggleFailureAborts ==
    \A c \in Callers :
        (Done(c) /\ Selecting(c)) =>
            \A i \in ToggleIdx(c) :
                call[c].txs[i].ret # "RIG_OK" =>
                    /\ SelectIdx(c) = {}
                    /\ call[c].retval = call[c].txs[i].ret
                    /\ dual_watch = call[c].dw0

C2_Witness ==
    \E c \in Callers :
        /\ Done(c) /\ call[c].op = "set_vfo" /\ call[c].vfo = "RIG_VFO_A"
        /\ call[c].dw0 = 1 /\ dual_watch = 1
        /\ Len(call[c].txs) = 1
        /\ call[c].txs[1].cmd = "icom_set_func"
        /\ call[c].txs[1].ret = "-RIG_ETIMEOUT"
        /\ call[c].retval = "-RIG_ETIMEOUT"

\* Some transaction of c's handler timed out.
TimedOut(c) == \E i \in DOMAIN call[c].txs : call[c].txs[i].ret = "-RIG_ETIMEOUT"

\* C3 as stated: whenever a transaction of an operation times out, the operation
\* fails and dual_watch equals its value before the operation.
C3_TimeoutRestoresDualWatch ==
    \A c \in Callers :
        (Done(c) /\ TimedOut(c)) =>
            /\ call[c].retval # "RIG_OK"
            /\ dual_watch = call[c].dw0

\* C3 as amended: whenever a transaction of an operation times out, the operation
\* fails with that timeout; dual_watch equals its value before the operation unless
\* the operation's toggle was acknowledged first, in which case dual_watch keeps the
\* acknowledged value, which differs from the value before the operation.
C3_TimeoutKeepsAcknowledgedToggle ==
    \A c \in Callers :
        (Done(c) /\ TimedOut(c)) =>
            /\ call[c].retval = "-RIG_ETIMEOUT"
            /\ IF \E i \in ToggleIdx(c) : call[c].txs[i].ret = "RIG_OK"
               THEN /\ dual_watch = call[c].txs[1].payload
                    /\ dual_watch # call[c].dw0
               ELSE dual_watch = call[c].dw0

C3_Witness ==
    \E c \in Callers :
        /\ Done(c) /\ call[c].op = "set_vfo" /\ call[c].vfo = "RIG_VFO_MAIN"
        /\ call[c].dw0 = 0 /\ dual_watch = 1
        /\ Len(call[c].txs) = 2
        /\ call[c].txs[1].cmd = "icom_set_func" /\ call[c].txs[1].ret = "RIG_OK"
        /\ call[c].txs[2].cmd = "C_SET_VFO" /\ call[c].txs[2].ret = "-RIG_ETIMEOUT"
        /\ call[c].retval = "-RIG_ETIMEOUT"

\* C4: dual_watch always equals the value carried by the most recent toggle the rig
\* acknowledged, or its initial value when none was acknowledged.
C4_DualWatchIsAcknowledged == dual_watch = devDualWatch

C4_Witness ==
    \E c \in Callers :
        /\ Done(c) /\ Selecting(c)
        /\ call[c].retval # "RIG_OK"
        /\ ToggleIdx(c) # {}
        /\ call[c].txs[1].ret = "RIG_OK"
        /\ dual_watch = call[c].txs[1].payload
        /\ dual_watch # call[c].dw0

\* C5: set_split_vfo with a transmit VFO outside {A, Main} returns -RIG_EINVAL,
\* issues no transaction and leaves dual_watch and x25cmdfails as they were,
\* whatever the receive VFO and the split flag.
C5_BadSplitRejected ==
    \A c \in Callers :
        (Done(c) /\ call[c].op = "set_split_vfo"
                 /\ call[c].tx_vfo \notin {"RIG_VFO_A", "RIG_VFO_MAIN"}) =>
            /\ call[c].retval = "-RIG_EINVAL"
            /\ call[c].txs = <<>>
            /\ dual_watch = call[c].dw0
            /\ x25cmdfails = call[c].x250

C5_Witness ==
    \E c \in Callers :
        /\ Done(c) /\ call[c].op = "set_split_vfo"
        /\ call[c].tx_vfo = "RIG_VFO_SUB" /\ call[c].arg_vfo = "RIG_VFO_MAIN"
        /\ call[c].split = 0
        /\ call[c].dw0 = 0 /\ call[c].x250 = 0
        /\ call[c].retval = "-RIG_EINVAL"

\* C6: set_split_vfo with a transmit VFO in {A, Main} runs one select of Sub and
\* returns its result: the toggle's failure with no VFO-select transaction, else the
\* outcome of the single VFO-select transaction; when it returns RIG_OK dual_watch
\* is on and the last transaction is the VFO-select carrying S_SUB.
C6_SplitSelectsSub ==
    \A c \in Callers :
        (Done(c) /\ call[c].op = "set_split_vfo"
                 /\ call[c].tx_vfo \in {"RIG_VFO_A", "RIG_VFO_MAIN"}) =>
            LET txs == call[c].txs IN
            /\ call[c].vfo = "RIG_VFO_SUB"
            /\ Len(txs) >= 1
            /\ call[c].retval = txs[Len(txs)].ret
            /\ Cardinality(SelectIdx(c)) <= 1
            /\ Cardinality(ToggleIdx(c)) = (IF call[c].dw0 = 0 THEN 1 ELSE 0)
            /\ call[c].retval = "RIG_OK" =>
                   /\ dual_watch = 1
                   /\ SelectIdx(c) = {Len(txs)}
                   /\ txs[Len(txs)].vfosel = "S_SUB"

C6_Witness ==
    \E c \in Callers :
        /\ Done(c) /\ call[c].op = "set_split_vfo"
        /\ call[c].tx_vfo = "RIG_VFO_MAIN" /\ call[c].dw0 = 0
        /\ call[c].retval = "RIG_OK" /\ dual_watch = 1
        /\ Len(call[c].txs) = 2
        /\ call[c].txs[2].cmd = "C_SET_VFO" /\ call[c].txs[2].vfosel = "S_SUB"

\* The mode table as the documentation states it: mode, device code pair, width.
CanonPair(m) ==
    CASE m = "RIG_MODE_AM"    -> <<2, 1>>
      [] m = "RIG_MODE_AMN"   -> <<2, 2>>
      [] m = "RIG_MODE_FM"    -> <<5, 1>>
      [] m = "RIG_MODE_FMN"   -> <<5, 2>>
      [] m = "RIG_MODE_DSTAR" -> <<23, 1>>

CanonWidth(m) ==
    CASE m = "RIG_MODE_AM"    -> 12000
      [] m = "RIG_MODE_AMN"   -> 6000
      [] m = "RIG_MODE_FM"    -> 10000
      [] m = "RIG_MODE_FMN"   -> 5000
      [] m = "RIG_MODE_DSTAR" -> 6000

CanonPairs == {CanonPair(m) : m \in ID5100_MODES}

\* C7: for each of the five modes, set_mode sends the documented code pair, and
\* get_mode answered with that pair yields the same mode with its fixed width.
C7_ModeRoundTrip ==
    \A c \in Callers :
        Done(c) =>
            /\ (call[c].op = "set_mode" /\ call[c].mode \in ID5100_MODES) =>
                   /\ Len(call[c].txs) = 1
                   /\ <<call[c].txs[1].code, call[c].txs[1].payload>>
                          = CanonPair(call[c].mode)
            /\ (call[c].op = "get_mode" /\ call[c].retval = "RIG_OK") =>
                   \A m \in ID5100_MODES :
                       call[c].resp = CanonPair(m) =>
                           /\ call[c].out_mode = m
                           /\ call[c].out_width = CanonWidth(m)

C7_Witness ==
    \E c \in Callers :
        /\ Done(c) /\ call[c].op = "get_mode" /\ call[c].retval = "RIG_OK"
        /\ call[c].resp = <<5, 2>>
        /\ call[c].out_mode = "RIG_MODE_FMN" /\ call[c].out_width = 5000

\* C8: get_mode never returns RIG_OK for an answer whose code pair is outside the
\* five documented pairs.
C8_UnknownPairFails ==
    \A c \in Callers :
        (Done(c) /\ call[c].op = "get_mode"
                 /\ call[c].txs[1].ret = "RIG_OK"
                 /\ call[c].resp \notin CanonPairs) =>
            call[c].retval # "RIG_OK"

\* C9: between the acknowledged toggle of a select and its VFO-select transaction
\* no other caller's transaction goes out on the handle.
C9_ToggleSelectAtomic ==
    [][\A c \in Callers :
          (pc[c] = "set_vfo" /\ pc'[c] = "done" /\ ToggleIdx(c) # {}) =>
              lastTxBy = c]_vars

\* C10: set_mode with a mode outside the five returns -RIG_EINVAL with no
\* transaction; with one of the five it issues exactly one C_SET_MODE transaction
\* carrying the mode's code pair and returns that transaction's outcome.
C10_SetModeContract ==
    \A c \in Callers :
        (Done(c) /\ call[c].op = "set_mode") =>
            IF call[c].mode \in ID5100_MODES
            THEN /\ Len(call[c].txs) = 1
                 /\ call[c].txs[1].cmd = "C_SET_MODE"
                 /\ call[c].txs[1].code = CanonPair(call[c].mode)[1]
                 /\ call[c].txs[1].payload = CanonPair(call[c].mode)[2]
                 /\ call[c].retval = call[c].txs[1].ret
            ELSE /\ call[c].retval = "-RIG_EINVAL"
                 /\ call[c].txs = <<>>

C10_Witness ==
    \E c \in Callers :
        /\ Done(c) /\ call[c].op = "set_mode" /\ call[c].mode = "RIG_MODE_USB"
        /\ call[c].retval = "-RIG_EINVAL" /\ call[c].txs = <<>>

FourVfos == Conventional \cup DualPath

C12_SelectTransaction ==
    \A c \in Callers :
        (Done(c) /\ Selecting(c)
                 /\ \A i \in ToggleIdx(c) : call[c].txs[i].ret = "RIG_OK") =>
            LET txs == call[c].txs
                n == Len(txs) IN
            /\ n >= 1
            /\ SelectIdx(c) = {n}
            /\ txs[n].payload = -1
            /\ call[c].vfo \in {"RIG_VFO_A", "RIG_VFO_MAIN"} => txs[n].vfosel = "S_MAIN"
            /\ call[c].vfo \in {"RIG_VFO_B", "RIG_VFO_SUB"} => txs[n].vfosel = "S_SUB"
            /\ call[c].retval = txs[n].ret

C12_Witness ==
    \E c \in Callers :
        /\ Done(c) /\ call[c].op = "set_vfo" /\ call[c].vfo = "RIG_VFO_B"
        /\ Len(call[c].txs) = 2
        /\ call[c].txs[2].cmd = "C_SET_VFO" /\ call[c].txs[2].vfosel = "S_SUB"
        /\ call[c].txs[2].ret = "-RIG_ERJCTED" /\ call[c].retval = "-RIG_ERJCTED"

\* The select of caller c ended with its toggle failing.
FailedAtToggle(c) ==
    /\ Done(c) /\ Selecting(c) /\ Len(call[c].txs) = 1
    /\ call[c].txs[1].cmd = "icom_set_func" /\ call[c].txs[1].ret # "RIG_OK"

\* The select of caller c ended with its VFO-select transaction failing.
FailedAtSelect(c) ==
    /\ Done(c) /\ Selecting(c) /\ Len(call[c].txs) >= 1
    /\ call[c].txs[Len(call[c].txs)].cmd = "C_SET_VFO"
    /\ call[c].txs[Len(call[c].txs)].ret # "RIG_OK"

\* C13 as stated: the error a select returns when its toggle fails differs from the
\* error a select returns when its VFO-select transaction fails.
C13_SubStepDistinguishable ==
    \A c, d \in Callers :
        (FailedAtToggle(c) /\ FailedAtSelect(d)) => call[c].retval # call[d].retval

\* C13 as amended: a failed select returns one error, the code of the transaction
\* that failed; it does not tell the sub-step, since a toggle and a VFO-select
\* transaction that fail the same way return equal errors.
C13_ErrorIsTransactionCode ==
    /\ \A c \in Callers :
           (Done(c) /\ Selecting(c) /\ call[c].retval # "RIG_OK") =>
               /\ FailedAtToggle(c) \/ FailedAtSelect(c)
               /\ call[c].retval = call[c].txs[Len(call[c].txs)].ret
    /\ \A c, d \in Callers :
           (FailedAtToggle(c) /\ FailedAtSelect(d)
                /\ call[c].txs[1].ret = call[d].txs[Len(call[d].txs)].ret) =>
               call[c].retval = call[d].retval

C13_Witness ==
    \E c, d \in Callers :
        /\ FailedAtToggle(c) /\ call[c].txs[1].ret = "-RIG_ETIMEOUT"
        /\ FailedAtSelect(d) /\ call[d].txs[Len(call[d].txs)].ret = "-RIG_ETIMEOUT"
        /\ call[c].retval = "-RIG_ETIMEOUT" /\ call[d].retval = "-RIG_ETIMEOUT"

\* The indices of c's transactions of one command.
CmdIdx(c, cmd) == {i \in DOMAIN call[c].txs : call[c].txs[i].cmd = cmd}

\* C14: no handler sends a transaction twice, each stops at the first transaction
\* that fails, and each returns that transaction's error code unchanged; a select
\* sends at most one toggle and then at most one VFO-select transaction.
C14_NoRetryNoSwallow ==
    \A c \in Callers :
        Done(c) =>
            LET txs == call[c].txs IN
            /\ \A cmd \in {"icom_set_func", "C_SET_VFO", "C_SET_MODE", "C_RD_MODE"} :
                   Cardinality(CmdIdx(c, cmd)) <= 1
            /\ \A i \in ToggleIdx(c) : \A j \in SelectIdx(c) : i < j
            /\ \A i \in DOMAIN txs :
                   txs[i].ret # "RIG_OK" =>
                       /\ i = Len(txs)
                       /\ call[c].retval = txs[i].ret

C14_Witness ==
    \E c \in Callers :
        /\ Done(c) /\ call[c].op = "get_mode"
        /\ Len(call[c].txs) = 1 /\ call[c].txs[1].ret = "-RIG_ERJCTED"
        /\ call[c].retval = "-RIG_ERJCTED"

\* What select(v) does from dual-watch dw0 and flag x250, given the outcomes of the
\* transactions it issued: the toggle its group asks for, then the VFO-select
\* transaction; the returned value; the state it leaves.
BehavesAsSelect(c, v) ==
    LET txs == call[c].txs
        tg == IF v \in Conventional /\ call[c].dw0 = 1 THEN 0
              ELSE IF v \in DualPath /\ call[c].dw0 = 0 THEN 1 ELSE -1
        sel == IF v \in {"RIG_VFO_B", "RIG_VFO_SUB"} THEN "S_SUB" ELSE "S_MAIN"
        toggled == tg # -1 /\ txs[1].ret = "RIG_OK" IN
    /\ Len(txs) >= 1
    /\ IF tg # -1
       THEN /\ txs[1] = Txn("icom_set_func", "none", -1, tg, txs[1].ret)
            /\ IF txs[1].ret = "RIG_OK"
               THEN /\ Len(txs) = 2
                    /\ txs[2] = Txn("C_SET_VFO", sel, -1, -1, txs[2].ret)
               ELSE Len(txs) = 1
       ELSE /\ Len(txs) = 1
            /\ txs[1] = Txn("C_SET_VFO", sel, -1, -1, txs[1].ret)
    /\ call[c].retval = txs[Len(txs)].ret
    /\ dual_watch = IF toggled THEN tg ELSE call[c].dw0
    /\ x25cmdfails = IF v \in FourVfos THEN 1 ELSE call[c].x250

\* C15: select(Current) issues the transactions, returns the result and leaves the
\* state that select(v) does for v the session's active VFO.
C15_CurrentIsActiveVfo ==
    \A c \in Callers :
        (Done(c) /\ call[c].op = "set_vfo") =>
            BehavesAsSelect(c, IF call[c].arg_vfo = "RIG_VFO_CURR"
                               THEN current_vfo ELSE call[c].arg_vfo)

C15_Witness ==
    \E c \in Callers :
        /\ Done(c) /\ call[c].op = "set_vfo" /\ call[c].arg_vfo = "RIG_VFO_CURR"
        /\ current_vfo = "RIG_VFO_SUB" /\ call[c].dw0 = 0
        /\ Len(call[c].txs) = 2 /\ call[c].txs[2].vfosel = "S_SUB"
        /\ call[c].retval = "RIG_OK" /\ dual_watch = 1

\* The call recorded in r is set_mode, get_mode or a set_split_vfo with a rejected
\* pairing.
NonSelecting(r) ==
    \/ r.op \in {"set_mode", "get_mode"}
    \/ r.op = "set_split_vfo" /\ r.tx_vfo \notin {"RIG_VFO_A", "RIG_VFO_MAIN"}

\* C16: dual_watch and x25cmdfails change only in steps of a handler that runs the
\* VFO selection; set_mode, get_mode and a rejected set_split_vfo leave both as
\* they found them, whether they succeed or fail.
C16_OnlySelectMutates ==
    [][/\ (dual_watch' # dual_watch \/ x25cmdfails' # x25cmdfails) =>
              \E c \in Callers : call'[c].vfo # "-" /\ pc'[c] # pc[c]
       /\ \A c \in Callers :
              NonSelecting(call'[c]) =>
                  /\ call'[c].vfo = "-"
                  /\ dual_watch' = call'[c].dw0
                  /\ x25cmdfails' = call'[c].x250]_vars

C16_Witness ==
    \E c \in Callers :
        /\ Done(c) /\ call[c].op = "set_mode" /\ call[c].mode = "RIG_MODE_DSTAR"
        /\ call[c].retval = "-RIG_ETIMEOUT"
        /\ call[c].dw0 = 1 /\ dual_watch = 1
        /\ call[c].x250 = 0 /\ x25cmdfails = 0

\* C17: what set_split_vfo sends, returns and leaves depends on tx_vfo, the state
\* before and the transaction outcomes only: with tx_vfo in {A, Main} it is a
\* select of Sub whatever split and the receive VFO are, split = 0 included; with
\* any other tx_vfo it is the rejection.
C17_SplitIgnoresFlagAndRx ==
    \A c \in Callers :
        (Done(c) /\ call[c].op = "set_split_vfo") =>
            IF call[c].tx_vfo \in {"RIG_VFO_A", "RIG_VFO_MAIN"}
            THEN BehavesAsSelect(c, "RIG_VFO_SUB")
            ELSE /\ call[c].txs = <<>>
                 /\ call[c].retval = "-RIG_EINVAL"
                 /\ dual_watch = call[c].dw0
                 /\ x25cmdfails = call[c].x250

C17_Witness ==
    \E c \in Callers :
        /\ Done(c) /\ call[c].op = "set_split_vfo"
        /\ call[c].split = 0 /\ call[c].arg_vfo = "RIG_VFO_A"
        /\ call[c].tx_vfo = "RIG_VFO_A" /\ call[c].dw0 = 0
        /\ Len(call[c].txs) = 2
        /\ call[c].txs[1].cmd = "icom_set_func" /\ call[c].txs[1].payload = 1
        /\ call[c].txs[2].vfosel = "S_SUB" /\ call[c].retval = "RIG_OK"

\* The dual-watch value of a VFO's group.
GroupBit(v) == IF v \in DualPath THEN 1 ELSE 0

\* C18: once a select of A, B, Main or Sub is past its toggle step without a failed
\* toggle, and so after every such select that returns RIG_OK, dual_watch is on
\* exactly when the VFO is Main or Sub; and dual_watch changes in no other step than
\* the acknowledged toggle of such a select, so it shows the group of the latest one.
C18_DualWatchFollowsGroup ==
    [][/\ \A c \in Callers :
              (/\ pc'[c] \in {"set_vfo", "done"}
               /\ call'[c].vfo \in FourVfos
               /\ \A i \in DOMAIN call'[c].txs :
                      call'[c].txs[i].cmd = "icom_set_func" =>
                          call'[c].txs[i].ret = "RIG_OK") =>
                  dual_watch' = GroupBit(call'[c].vfo)
       /\ dual_watch' # dual_watch =>
              \E c \in Callers :
                  /\ pc[c] = "set_func" /\ pc'[c] = "set_vfo"
                  /\ call[c].vfo \in FourVfos
                  /\ dual_watch' = GroupBit(call[c].vfo)]_vars

C18_Witness ==
    \E c \in Callers :
        /\ Done(c) /\ call[c].op = "set_vfo" /\ call[c].vfo = "RIG_VFO_B"
        /\ call[c].dw0 = 1 /\ dual_watch = 0
        /\ Len(call[c].txs) = 2 /\ call[c].retval = "RIG_OK"

\* C19: a select whose VFO, once RIG_VFO_CURR is resolved, is none of A, B, Main and
\* Sub sends no toggle, leaves dual_watch and x25cmdfails as they were, sends one
\* VFO-select transaction with S_MAIN and returns its outcome.
C19_OtherVfoSelectsMain ==
    \A c \in Callers :
        (Done(c) /\ Selecting(c) /\ call[c].vfo \notin FourVfos) =>
            /\ Len(call[c].txs) = 1
            /\ call[c].txs[1] = Txn("C_SET_VFO", "S_MAIN", -1, -1, call[c].txs[1].ret)
            /\ call[c].retval = call[c].txs[1].ret
            /\ dual_watch = call[c].dw0
            /\ x25cmdfails = call[c].x250

C19_Witness ==
    \E c \in Callers :
        /\ Done(c) /\ call[c].op = "set_vfo" /\ call[c].arg_vfo = "RIG_VFO_CURR"
        /\ current_vfo = "RIG_VFO_MEM" /\ call[c].vfo = "RIG_VFO_MEM"
        /\ call[c].dw0 = 1 /\ dual_watch = 1 /\ call[c].x250 = 0 /\ x25cmdfails = 0
        /\ Len(call[c].txs) = 1 /\ call[c].txs[1].vfosel = "S_MAIN"
        /\ call[c].retval = "RIG_OK"

====
